---- MODULE Spec2Model ----
(***************************************************************************)
(* EEVEE light probes (source/blender/draw/engines/eevee/                  *)
(* eevee_lightprobes.c): the probe registry (cache_init / cache_add /      *)
(* cache_finish) and the incremental bake scheduler                        *)
(* (EEVEE_lightprobes_refresh), one frame after the other.                 *)
(***************************************************************************)
EXTENDS Integers, Sequences, FiniteSets, TLC

(* ------------------------------------------------------------------ *)
(* Program constants (scaled) and the bounds of the model              *)
(* ------------------------------------------------------------------ *)

\* capacity of probes_cube_ref / probe_data; the guard of cache_add uses it
\* for both kinds
MAX_PROBE == 4
\* capacity of probes_grid_ref / grid_data; the loops over grids use it
MAX_GRID == 3
\* const int max_bounce = 3
max_bounce == 3

\* saturation of the busy-frame counter
QuietCap == 60
\* no probe is added to the scene once num_render_cube has grown beyond this
MaxRenderCube == 2

NULL == "NULL"

GridObs == {"G1", "G2", "G3"}
CubeObs == {"P1", "P2", "P3", "P4"}
Obs == GridObs \cup CubeObs

\* the order in which the draw manager hands the scene's objects to cache_add
SceneOrder == <<"G1", "P1", "G2", "P2", "G3", "P3", "P4">>

\* probe->grid_resolution_x/y/z
UnitRes == <<1, 1, 1>>
ResChoices == {<<1, 1, 1>>, <<1, 1, 2>>}
FreshResChoices == ResChoices \cup {<<2, 2, 2>>}

NumCell(r) == r[1] * r[2] * r[3]

\* cells of the irradiance atlas the model keeps the contents of: the world
\* cell and two grids of the largest resolution
AtlasCells == 1 + (MAX_GRID - 1) * NumCell(<<2, 2, 2>>)

(* ------------------------------------------------------------------ *)
(* State                                                               *)
(* ------------------------------------------------------------------ *)
VARIABLES
  \* the scene (external collaborator)
  inScene,            \* object is handed to cache_add this frame
  grid_resolution,    \* probe->grid_resolution_{x,y,z}
  wo_update_flag,     \* wo->update_flag != 0
  deg_update_flag,    \* ob->deg_update_flag & DEG_RUNTIME_DATA_UPDATE
  \* frame loop
  pc,                 \* which handler runs next
  scan,               \* position of the scene iteration in SceneOrder
  \* EEVEE_LightProbesInfo
  num_cube, num_grid, cache_num_cube,
  probes_cube_ref, probes_grid_ref,
  grid_offset,        \* grid_data[i].offset
  updated_bounce,
  num_render_cube, num_render_grid,
  specular_toggle,
  \* e_data
  update_world, world_ready_to_shade,
  \* EEVEE_SceneLayerData textures
  probe_pool,         \* FALSE = NULL
  irradiance_pool, irradiance_rt,   \* 0 = NULL, else a texture id
  \* EEVEE_LightProbeEngineData of every object
  ped,
  \* observation
  tex,                \* what each irradiance texture holds, per atlas cell
  log,                \* what the last scheduler step did
  quiet,              \* redraw-requesting steps since the last scene change
  dirtying,           \* the objects cache_add marked dirty since an atlas was (re)created
  last_pass,          \* the grids of the registry pass before, their cells and offsets
  call,               \* a call of one of the helper functions on its own
  stale,              \* the ready cube probes captured before the last grid-cell bake
  other               \* the scene layer that is not being drawn, NoOther if there is one layer

vars == <<inScene, grid_resolution, wo_update_flag, deg_update_flag, pc, scan,
          num_cube, num_grid, cache_num_cube, probes_cube_ref, probes_grid_ref,
          grid_offset, updated_bounce, num_render_cube, num_render_grid,
          specular_toggle, update_world, world_ready_to_shade, probe_pool,
          irradiance_pool, irradiance_rt, ped, tex, log, quiet,
          dirtying, last_pass, call, stale, other>>

\* everything but `call`
frameVars == <<inScene, grid_resolution, wo_update_flag, deg_update_flag, pc,
               scan, num_cube, num_grid, cache_num_cube, probes_cube_ref,
               probes_grid_ref, grid_offset, updated_bounce, num_render_cube,
               num_render_grid, specular_toggle, update_world,
               world_ready_to_shade, probe_pool, irradiance_pool, irradiance_rt,
               ped, tex, log, quiet, dirtying, last_pass, stale, other>>

sceneVars == <<inScene, grid_resolution, wo_update_flag, deg_update_flag>>
registryVars == <<num_cube, num_grid, cache_num_cube, probes_cube_ref,
                  probes_grid_ref, grid_offset>>

Min(S) == CHOOSE x \in S : \A y \in S : x <= y
Max(S) == CHOOSE x \in S : \A y \in S : x >= y

(* ------------------------------------------------------------------ *)
(* Contents of the irradiance textures                                 *)
(* ------------------------------------------------------------------ *)
NoneTag == <<"none", 0>>          \* nothing of the current bake cycle
WorldTag == <<"world", 0>>        \* written by the world bake
BounceTag(b) == <<"bounce", b>>   \* a grid cell baked at bounce b of this cycle

EmptyTex == [o \in 0 .. (AtlasCells - 1) |-> NoneTag]

\* pinfo->updated_bounce = 0 starts a new bake cycle: what the grid cells of
\* the atlases hold was baked in the cycle before
NewCycle(t) ==
  [id \in DOMAIN t |->
     [o \in DOMAIN t[id] |->
        IF t[id][o][1] = "bounce" THEN NoneTag ELSE t[id][o]]]

NoLog ==
  [ran |-> FALSE, paused |-> FALSE, world |-> 0, grid |-> 0, cube |-> 0,
   redraw |-> FALSE, swaps |-> 0, irr |-> <<>>, glossy |-> <<>>,
   capBounce |-> 0, readOK |-> TRUE, readTex |-> 0, writeTex |-> 0,
   duringCube |-> 0, duringGrid |-> 0, specAtDraw |-> {}]

\* EEVEE_lightprobe_data_get: the engine data of an object seen for the first time
FreshPed ==
  [need_update |-> TRUE, updated_cells |-> 0, num_cell |-> 0,
   ready_to_shade |-> FALSE, probe_id |-> 0]

\* since: cache_add has marked an object dirty since an atlas was (re)created;
\* first / from: whether the last marking of this registry pass was the first
\* one since then, and the value of updated_bounce it found
NoDirtying == [since |-> FALSE, first |-> FALSE, from |-> 0]

\* what a registry pass leaves: probes_grid_ref, and for every slot the
\* num_cell of its grid and grid_data[i].offset
ThisPass ==
  [ref |-> probes_grid_ref,
   cells |-> [i \in DOMAIN probes_grid_ref |->
                IF probes_grid_ref[i] = NULL THEN 0
                ELSE ped[probes_grid_ref[i]].num_cell],
   offset |-> grid_offset]

\* no helper function is called on its own
NoCall == [op |-> "none"]

\* there is no second scene layer
NoOther == [id |-> "none"]

(* ------------------------------------------------------------------ *)
(* Initial states                                                      *)
(* ------------------------------------------------------------------ *)
\* the engine after EEVEE_lightprobes_init, before the first frame
EngineFields ==
  /\ pc = "cache_init"
  /\ scan = 0
  /\ num_cube = 0 /\ num_grid = 0 /\ cache_num_cube = 0
  /\ probes_cube_ref = [i \in 0 .. (MAX_PROBE - 1) |-> NULL]
  /\ probes_grid_ref = [i \in 0 .. (MAX_GRID - 1) |-> NULL]
  /\ grid_offset = [i \in 0 .. (MAX_GRID - 1) |-> 0]
  /\ updated_bounce = 0
  /\ num_render_cube = 0 /\ num_render_grid = 0
  /\ specular_toggle = TRUE
  /\ update_world = FALSE /\ world_ready_to_shade = FALSE
  /\ probe_pool = FALSE
  /\ irradiance_pool = 0 /\ irradiance_rt = 0
  /\ ped = [ob \in Obs |-> FreshPed]
  /\ tex = [id \in 1 .. 2 |-> EmptyTex]
  /\ log = NoLog
  /\ quiet = 0
  /\ dirtying = NoDirtying
  /\ last_pass = ThisPass
  /\ stale = {}

\* one scene layer is drawn
EngineInit == EngineFields /\ call = NoCall /\ other = NoOther

SceneInit(universe, resChoices) ==
  /\ inScene \in [Obs -> BOOLEAN]
  /\ \A ob \in Obs : inScene[ob] => ob \in universe
  /\ grid_resolution \in [Obs -> resChoices]
  /\ \A ob \in Obs : (ob \in CubeObs \/ ~inScene[ob]) => grid_resolution[ob] = UnitRes
  /\ wo_update_flag \in BOOLEAN
  /\ deg_update_flag = inScene

Universe == {"G1", "P1"}

Init == SceneInit(Universe, ResChoices) /\ EngineInit

(* ------------------------------------------------------------------ *)
(* The scene between two frames                                        *)
(* ------------------------------------------------------------------ *)
\* the world's settings change: wo->update_flag is raised
WorldChange ==
  /\ pc = "cache_init"
  /\ ~wo_update_flag
  /\ wo_update_flag' = TRUE
  /\ log' = NoLog /\ quiet' = 0
  /\ UNCHANGED <<inScene, grid_resolution, deg_update_flag, pc, scan,
                 registryVars, updated_bounce, num_render_cube, num_render_grid,
                 specular_toggle, update_world, world_ready_to_shade, probe_pool,
                 irradiance_pool, irradiance_rt, ped, tex>>
  /\ UNCHANGED <<dirtying, last_pass, call, stale, other>>

\* an object of the scene is transformed: the depsgraph tags it
TransformChange(ob) ==
  /\ pc = "cache_init"
  /\ inScene[ob] /\ ~deg_update_flag[ob]
  /\ deg_update_flag' = [deg_update_flag EXCEPT ![ob] = TRUE]
  /\ log' = NoLog /\ quiet' = 0
  /\ UNCHANGED <<inScene, grid_resolution, wo_update_flag, pc, scan,
                 registryVars, updated_bounce, num_render_cube, num_render_grid,
                 specular_toggle, update_world, world_ready_to_shade, probe_pool,
                 irradiance_pool, irradiance_rt, ped, tex>>
  /\ UNCHANGED <<dirtying, last_pass, call, stale, other>>

\* a probe object is added to the scene: new engine data, tagged by the depsgraph
AddObject(ob, r) ==
  /\ pc = "cache_init"
  /\ ~inScene[ob]
  /\ num_render_cube <= MaxRenderCube
  /\ ob \in CubeObs => r = UnitRes
  /\ inScene' = [inScene EXCEPT ![ob] = TRUE]
  /\ grid_resolution' = [grid_resolution EXCEPT ![ob] = r]
  /\ deg_update_flag' = [deg_update_flag EXCEPT ![ob] = TRUE]
  /\ ped' = [ped EXCEPT ![ob] = FreshPed]
  /\ log' = NoLog /\ quiet' = 0
  /\ UNCHANGED <<wo_update_flag, pc, scan,
                 registryVars, updated_bounce, num_render_cube, num_render_grid,
                 specular_toggle, update_world, world_ready_to_shade, probe_pool,
                 irradiance_pool, irradiance_rt, tex>>
  /\ UNCHANGED <<dirtying, last_pass, call, stale, other>>

\* a probe object is removed from the scene, its engine data is freed with it
RemoveObject(ob) ==
  /\ pc = "cache_init"
  /\ inScene[ob]
  /\ inScene' = [inScene EXCEPT ![ob] = FALSE]
  /\ grid_resolution' = [grid_resolution EXCEPT ![ob] = UnitRes]
  /\ deg_update_flag' = [deg_update_flag EXCEPT ![ob] = FALSE]
  /\ ped' = [ped EXCEPT ![ob] = FreshPed]
  /\ log' = NoLog /\ quiet' = 0
  /\ UNCHANGED <<wo_update_flag, pc, scan,
                 registryVars, updated_bounce, num_render_cube, num_render_grid,
                 specular_toggle, update_world, world_ready_to_shade, probe_pool,
                 irradiance_pool, irradiance_rt, tex>>
  /\ UNCHANGED <<dirtying, last_pass, call, stale, other>>

\* the resolution of a grid is edited: the depsgraph tags the object
ResolutionChange(ob, r) ==
  /\ pc = "cache_init"
  /\ ob \in GridObs /\ inScene[ob]
  /\ r # grid_resolution[ob]
  /\ grid_resolution' = [grid_resolution EXCEPT ![ob] = r]
  /\ deg_update_flag' = [deg_update_flag EXCEPT ![ob] = TRUE]
  /\ log' = NoLog /\ quiet' = 0
  /\ UNCHANGED <<inScene, wo_update_flag, pc, scan,
                 registryVars, updated_bounce, num_render_cube, num_render_grid,
                 specular_toggle, update_world, world_ready_to_shade, probe_pool,
                 irradiance_pool, irradiance_rt, ped, tex>>
  /\ UNCHANGED <<dirtying, last_pass, call, stale, other>>

(* ------------------------------------------------------------------ *)
(* Probe registry                                                      *)
(* ------------------------------------------------------------------ *)
\* for (i = 1; (ob = ref[i]) && (i < max); i++)
LoopRange(ref, max) ==
  {i \in 1 .. (max - 1) : \A j \in 1 .. i : j \in DOMAIN ref /\ ref[j] # NULL}

\* mutant: the counts are reset to 0, slot 0 is not kept for the world
EEVEE_lightprobes_cache_init_FromZero ==
  /\ pc = "cache_init"
  /\ num_cube' = 0
  /\ num_grid' = 0
  /\ probes_cube_ref' = [i \in DOMAIN probes_cube_ref |-> NULL]
  /\ probes_grid_ref' = [i \in DOMAIN probes_grid_ref |-> NULL]
  /\ update_world' = wo_update_flag
  /\ wo_update_flag' = FALSE
  /\ pc' = "cache_add"
  /\ scan' = 0
  /\ log' = NoLog
  /\ UNCHANGED <<inScene, grid_resolution, deg_update_flag, cache_num_cube,
                 grid_offset, updated_bounce, num_render_cube, num_render_grid,
                 specular_toggle, world_ready_to_shade, probe_pool,
                 irradiance_pool, irradiance_rt, ped, tex, quiet>>
  /\ UNCHANGED <<dirtying, last_pass, call, stale, other>>

EEVEE_lightprobes_cache_init ==
  /\ pc = "cache_init"
  /\ num_cube' = 1
  /\ num_grid' = 1
  /\ probes_cube_ref' = [i \in DOMAIN probes_cube_ref |-> NULL]
  /\ probes_grid_ref' = [i \in DOMAIN probes_grid_ref |-> NULL]
  /\ update_world' = wo_update_flag
  /\ wo_update_flag' = FALSE
  /\ pc' = "cache_add"
  /\ scan' = 0
  /\ log' = NoLog
  /\ UNCHANGED <<inScene, grid_resolution, deg_update_flag, cache_num_cube,
                 grid_offset, updated_bounce, num_render_cube, num_render_grid,
                 specular_toggle, world_ready_to_shade, probe_pool,
                 irradiance_pool, irradiance_rt, ped, tex, quiet>>
  /\ UNCHANGED <<dirtying, last_pass, call, stale, other>>

\* the objects of the scene the iteration has not handed over yet
Pending == {k \in (scan + 1) .. Len(SceneOrder) : inScene[SceneOrder[k]]}

\* pinfo->probes_grid_ref[pinfo->num_grid] = ob: the array has MAX_GRID slots
StoreRef(ref, i, ob) ==
  IF i \in DOMAIN ref THEN [ref EXCEPT ![i] = ob] ELSE ref

\* the capacity test at the top of cache_add
TooManyProbes(ob) ==
  \/ (ob \in CubeObs /\ num_cube >= MAX_PROBE)
  \/ (ob \in GridObs /\ num_grid >= MAX_PROBE)

\* mutant: the tag does not set need_update
TagObject_NoUpdate(p) ==
  [p EXCEPT !.updated_cells = 0, !.probe_id = 0]

\* mutant: the tag leaves updated_cells as it is
TagObject_KeepsCells(p) ==
  [p EXCEPT !.need_update = TRUE, !.probe_id = 0]

\* ped->need_update = true; updated_cells = 0; probe_id = 0
TagObject(p) ==
  [p EXCEPT !.need_update = TRUE, !.updated_cells = 0, !.probe_id = 0]

\* mutant: marking an object dirty leaves the bounce counter as it is
BounceAfterTag_Keeps(tagged) == updated_bounce

\* pinfo->updated_bounce = 0 in both "if" bodies of cache_add
BounceAfterTag(tagged) == IF tagged THEN 0 ELSE updated_bounce

EEVEE_lightprobes_cache_add ==
  /\ pc = "cache_add"
  /\ Pending # {}
  /\ LET k == Min(Pending)
         ob == SceneOrder[k]
         tagged == deg_update_flag[ob] \/ update_world
         p1 == [ped[ob] EXCEPT !.num_cell = NumCell(grid_resolution[ob])]
     IN /\ scan' = k
        \* the draw manager clears the tag once the engines have seen the object
        /\ deg_update_flag' = [deg_update_flag EXCEPT ![ob] = FALSE]
        /\ IF TooManyProbes(ob)
             THEN UNCHANGED <<ped, updated_bounce, tex, num_cube, num_grid,
                              probes_cube_ref, probes_grid_ref, pc, dirtying>>
             ELSE /\ ped' = [ped EXCEPT ![ob] = IF tagged THEN TagObject(p1) ELSE p1]
                  /\ updated_bounce' = BounceAfterTag(tagged)
                  /\ tex' = IF tagged THEN NewCycle(tex) ELSE tex
                  /\ dirtying' = IF tagged
                                   THEN [since |-> TRUE, first |-> ~dirtying.since,
                                         from |-> updated_bounce]
                                   ELSE dirtying
                  /\ IF ob \in CubeObs
                       THEN /\ probes_cube_ref' = [probes_cube_ref EXCEPT ![num_cube] = ob]
                            /\ num_cube' = num_cube + 1
                            /\ UNCHANGED <<probes_grid_ref, num_grid, pc>>
                       ELSE /\ probes_grid_ref' = StoreRef(probes_grid_ref, num_grid, ob)
                            /\ num_grid' = num_grid + 1
                            \* a store past the end of the array: what the
                            \* program does from here on is undefined
                            /\ pc' = IF num_grid \in DOMAIN probes_grid_ref
                                       THEN pc ELSE "undefined"
                            /\ UNCHANGED <<probes_cube_ref, num_cube>>
  /\ UNCHANGED <<inScene, grid_resolution, wo_update_flag, cache_num_cube,
                 grid_offset, num_render_cube, num_render_grid, specular_toggle,
                 update_world, world_ready_to_shade, probe_pool, irradiance_pool,
                 irradiance_rt, log, quiet, last_pass, call, stale, other>>

\* mutant: "int offset = 0": the world cell is not accounted for
GridOffsets_FromZero(pd) ==
  [i \in DOMAIN grid_offset |->
     IF i \in LoopRange(probes_grid_ref, MAX_GRID)
       THEN (LET RECURSIVE Sum(_)
                 Sum(j) == IF j = 0 THEN 0
                           ELSE pd[probes_grid_ref[j]].num_cell + Sum(j - 1)
             IN Sum(i - 1))
       ELSE grid_offset[i]]

\* EEVEE_lightprobes_updates: int offset = 1; ... offset += ped->num_cell
GridOffsets(pd) ==
  [i \in DOMAIN grid_offset |->
     IF i \in LoopRange(probes_grid_ref, MAX_GRID)
       THEN 1 + (LET RECURSIVE Sum(_)
                     Sum(j) == IF j = 0 THEN 0
                               ELSE pd[probes_grid_ref[j]].num_cell + Sum(j - 1)
                 IN Sum(i - 1))
       ELSE grid_offset[i]]

\* the reflection atlas is (re)created: "Tag probes to refresh"
TagCubes(pd) ==
  [ob \in Obs |->
     IF \E i \in LoopRange(probes_cube_ref, MAX_PROBE) : probes_cube_ref[i] = ob
       THEN [pd[ob] EXCEPT !.need_update = TRUE, !.ready_to_shade = FALSE,
                           !.probe_id = 0]
       ELSE pd[ob]]

\* an irradiance atlas is created: every registered grid starts over
TagGrids(pd) ==
  [ob \in Obs |->
     IF \E i \in LoopRange(probes_grid_ref, MAX_PROBE) : probes_grid_ref[i] = ob
       THEN [pd[ob] EXCEPT !.need_update = TRUE, !.updated_cells = 0]
       ELSE pd[ob]]

\* if (pinfo->num_cube != pinfo->cache_num_cube) DRW_TEXTURE_FREE_SAFE(probe_pool)
PoolAfterFree == IF num_cube # cache_num_cube THEN FALSE ELSE probe_pool

EEVEE_lightprobes_cache_finish ==
  /\ pc = "cache_add"
  /\ Pending = {}
  /\ LET newPool == ~PoolAfterFree
         newIrr == irradiance_pool = 0
         newRt == irradiance_rt = 0
         p1 == IF newPool THEN TagCubes(ped) ELSE ped
         p2 == IF newIrr \/ newRt THEN TagGrids(p1) ELSE p1
     IN /\ probe_pool' = TRUE
        /\ update_world' = IF newPool THEN TRUE ELSE update_world
        /\ world_ready_to_shade' = IF newPool THEN FALSE ELSE world_ready_to_shade
        /\ num_render_cube' = IF newPool THEN 0 ELSE num_render_cube
        /\ cache_num_cube' = IF newPool THEN num_cube ELSE cache_num_cube
        /\ irradiance_pool' = IF newIrr THEN 1 ELSE irradiance_pool
        /\ irradiance_rt' = IF newRt THEN 2 ELSE irradiance_rt
        /\ num_render_grid' = IF newIrr \/ newRt THEN 0 ELSE num_render_grid
        /\ updated_bounce' = IF newIrr \/ newRt THEN 0 ELSE updated_bounce
        /\ tex' = [id \in DOMAIN tex |->
                     IF (newIrr /\ id = 1) \/ (newRt /\ id = 2) THEN EmptyTex ELSE tex[id]]
        /\ ped' = p2
        /\ grid_offset' = GridOffsets(p2)
        /\ dirtying' = [NoDirtying EXCEPT
                          !.since = IF newPool \/ newIrr \/ newRt
                                      THEN FALSE ELSE dirtying.since]
        /\ stale' = {ob \in stale : p2[ob].ready_to_shade}
  /\ pc' = "refresh"
  /\ UNCHANGED <<sceneVars, scan, num_cube, num_grid, probes_cube_ref,
                 probes_grid_ref, specular_toggle, log, quiet, last_pass, call,
                 other>>

(* ------------------------------------------------------------------ *)
(* Capture and filter                                                  *)
(* ------------------------------------------------------------------ *)
\* The scheduler works on a record s of what one step may change:
\*   ub (updated_bounce), pd (engine data), pool / rt (the two irradiance
\*   textures), nrg / nrc (num_render_grid / num_render_cube), uw / wrs
\*   (e_data.update_world / world_ready_to_shade), spec (specular_toggle),
\*   tx (texture contents), lg (the step's log)

\* SWAP(GPUTexture *, sldata->irradiance_pool, sldata->irradiance_rt)
SwapIrradiance(s) ==
  [s EXCEPT !.pool = s.rt, !.rt = s.pool, !.lg.swaps = @ + 1]

\* diffuse_filter_probe: the footprint of `offset` in irradiance_rt is written
diffuse_filter_probe(s, offset, tag) ==
  [s EXCEPT !.tx[s.rt] = [o \in DOMAIN @ |-> IF o = offset THEN tag ELSE @[o]],
            !.lg.irr = Append(@, <<s.rt, offset>>)]

\* glossy_filter_probe: layer probe_idx of the reflection atlas is written
glossy_filter_probe(s, probe_idx) ==
  [s EXCEPT !.lg.glossy = Append(@, probe_idx)]

\* mutant: specular_toggle is not restored after the draw
render_scene_to_probe_NoRestore(s) ==
  LET off == [s EXCEPT !.spec = FALSE]
  IN [off EXCEPT !.lg.specAtDraw = @ \cup {off.spec},
                 !.lg.duringCube = off.nrc,
                 !.lg.duringGrid = off.nrg,
                 !.lg.readTex = off.pool]

\* render_scene_to_probe: specular is off while the six faces are drawn
render_scene_to_probe(s) ==
  LET off == [s EXCEPT !.spec = FALSE]
      drawn == [off EXCEPT !.lg.specAtDraw = @ \cup {off.spec},
                           !.lg.duringCube = off.nrc,
                           !.lg.duringGrid = off.nrg,
                           !.lg.readTex = off.pool]
  IN [drawn EXCEPT !.spec = TRUE]

render_world_to_probe(s) == [s EXCEPT !.lg.world = @ + 1]

(* ------------------------------------------------------------------ *)
(* Incremental scheduler                                               *)
(* ------------------------------------------------------------------ *)
\* mutant: the atlases are not swapped between the two diffuse filters
WorldBake_NoSwap(s) ==
  LET s1 == render_world_to_probe(s)
      s2 == glossy_filter_probe(s1, 0)
      s3 == diffuse_filter_probe(s2, 0, WorldTag)
      s5 == diffuse_filter_probe(s3, 0, WorldTag)
      s6 == [s5 EXCEPT !.uw = FALSE]
      s7 == IF ~s6.wrs
              THEN [s6 EXCEPT !.wrs = TRUE, !.nrc = 1, !.nrg = 1]
              ELSE s6
  IN [s7 EXCEPT !.lg.redraw = TRUE]

\* if (e_data.update_world) { ... }
WorldBake(s) ==
  LET s1 == render_world_to_probe(s)
      s2 == glossy_filter_probe(s1, 0)
      s3 == diffuse_filter_probe(s2, 0, WorldTag)
      s4 == SwapIrradiance(s3)
      s5 == diffuse_filter_probe(s4, 0, WorldTag)
      s6 == [s5 EXCEPT !.uw = FALSE]
      s7 == IF ~s6.wrs
              THEN [s6 EXCEPT !.wrs = TRUE, !.nrc = 1, !.nrg = 1]
              ELSE s6
  IN [s7 EXCEPT !.lg.redraw = TRUE]

\* the first registered grid with need_update, 0 if there is none
FirstDirtyGrid(pd) ==
  LET D == {i \in LoopRange(probes_grid_ref, MAX_GRID) :
              pd[probes_grid_ref[i]].need_update}
  IN IF D = {} THEN 0 ELSE Min(D)

\* what the capture of a cell at bounce ub reads: the cells of every
\* registered grid in irradiance_pool
ReadsPreviousBounce(s) ==
  \A j \in LoopRange(probes_grid_ref, MAX_GRID) :
    \A c \in 0 .. (s.pd[probes_grid_ref[j]].num_cell - 1) :
      (grid_offset[j] + c) \in DOMAIN s.tx[s.pool]
      /\ s.tx[s.pool][grid_offset[j] + c] = BounceTag(s.ub - 1)

\* mutant: ">" in the place of ">="
CellDone_OffByOne(p) ==
  LET q == [p EXCEPT !.updated_cells = @ + 1]
  IN IF q.updated_cells > q.num_cell THEN [q EXCEPT !.need_update = FALSE] ELSE q

\* if (ped->updated_cells >= ped->num_cell) ped->need_update = false
CellDone(p) ==
  LET q == [p EXCEPT !.updated_cells = @ + 1]
  IN IF q.updated_cells >= q.num_cell THEN [q EXCEPT !.need_update = FALSE] ELSE q

\* mutant: the counts zeroed for the capture are not restored
BakeCell_NoRestore(s, i) ==
  LET ob == probes_grid_ref[i]
      cell_id == s.pd[ob].updated_cells
      s1 == SwapIrradiance(s)
      s2 == [s1 EXCEPT !.nrc = 0,
                       !.nrg = IF s1.ub = 0 THEN 0 ELSE @]
      s3 == [render_scene_to_probe(s2) EXCEPT
               !.lg.grid = @ + 1,
               !.lg.capBounce = s2.ub,
               !.lg.readOK = (s2.ub >= 1) => ReadsPreviousBounce(s2),
               !.lg.writeTex = s2.rt]
      s4 == diffuse_filter_probe(s3, grid_offset[i] + cell_id, BounceTag(s3.ub))
      s6 == SwapIrradiance(s4)
      s7 == [s6 EXCEPT !.pd[ob] = CellDone(@)]
  IN [s7 EXCEPT !.lg.redraw = TRUE]

\* the body of "if (ped->need_update)" for grid i: one cell is baked
BakeCell(s, i) ==
  LET ob == probes_grid_ref[i]
      cell_id == s.pd[ob].updated_cells
      s1 == SwapIrradiance(s)
      tmp_num_render_grid == s1.nrg
      tmp_num_render_cube == s1.nrc
      s2 == [s1 EXCEPT !.nrc = 0,
                       !.nrg = IF s1.ub = 0 THEN 0 ELSE @]
      s3 == [render_scene_to_probe(s2) EXCEPT
               !.lg.grid = @ + 1,
               !.lg.capBounce = s2.ub,
               !.lg.readOK = (s2.ub >= 1) => ReadsPreviousBounce(s2),
               !.lg.writeTex = s2.rt]
      s4 == diffuse_filter_probe(s3, grid_offset[i] + cell_id, BounceTag(s3.ub))
      s5 == [s4 EXCEPT !.nrg = tmp_num_render_grid, !.nrc = tmp_num_render_cube]
      s6 == SwapIrradiance(s5)
      s7 == [s6 EXCEPT !.pd[ob] = CellDone(@)]
  IN [s7 EXCEPT !.lg.redraw = TRUE]

\* mutant: the grids are not retagged for the next bounce
RetagGrids_Nothing(pd) == pd

\* "Retag all grids to update for next bounce"
RetagGrids(pd) ==
  [ob \in Obs |->
     IF \E i \in LoopRange(probes_grid_ref, MAX_GRID) : probes_grid_ref[i] = ob
       THEN [pd[ob] EXCEPT !.need_update = TRUE, !.updated_cells = 0]
       ELSE pd[ob]]

\* mutant: advancing to the next bounce does not swap the atlases
NextBounce_NoSwap(s) ==
  LET s1 == [s EXCEPT !.ub = @ + 1, !.nrg = num_grid]
  IN IF s1.ub < max_bounce
       THEN [s1 EXCEPT !.pd = RetagGrids(@)]
       ELSE s1

\* what follows the scan of the grids when none is dirty
NextBounce(s) ==
  LET s1 == [s EXCEPT !.ub = @ + 1, !.nrg = num_grid]
  IN IF s1.ub < max_bounce
       THEN SwapIrradiance([s1 EXCEPT !.pd = RetagGrids(@)])
       ELSE s1

\* mutant: "if" in the place of "while": one pass only
GridLoop_SinglePass(s) ==
  IF s.ub < max_bounce
    THEN LET s1 == [s EXCEPT !.nrg = num_grid]
             i == FirstDirtyGrid(s1.pd)
         IN IF i # 0 THEN BakeCell(s1, i) ELSE NextBounce(s1)
    ELSE s

\* while (pinfo->updated_bounce < max_bounce) { ... }
RECURSIVE GridLoop(_)
GridLoop(s) ==
  IF s.ub < max_bounce
    THEN LET s1 == [s EXCEPT !.nrg = num_grid]
             i == FirstDirtyGrid(s1.pd)
         IN IF i # 0 THEN BakeCell(s1, i) ELSE GridLoop(NextBounce(s1))
    ELSE s

\* mutant: the scan of the cube probes starts at slot 2
FirstDirtyCube_SkipsFirst(pd) ==
  LET D == {i \in LoopRange(probes_cube_ref, MAX_PROBE) :
              i > 1 /\ pd[probes_cube_ref[i]].need_update}
  IN IF D = {} THEN 0 ELSE Min(D)

\* the first registered cube probe with need_update, 0 if there is none
FirstDirtyCube(pd) ==
  LET D == {i \in LoopRange(probes_cube_ref, MAX_PROBE) :
              pd[probes_cube_ref[i]].need_update}
  IN IF D = {} THEN 0 ELSE Min(D)

\* mutant: DRW_viewport_request_redraw is missing after a cube probe
BakeCube_NoRedraw(s, i) ==
  LET ob == probes_cube_ref[i]
      s1 == [render_scene_to_probe(s) EXCEPT
               !.lg.cube = @ + 1, !.lg.capBounce = s.ub]
      s2 == glossy_filter_probe(s1, i)
      s3 == [s2 EXCEPT !.pd[ob].need_update = FALSE, !.pd[ob].probe_id = i]
  IN IF ~s3.pd[ob].ready_to_shade
       THEN [s3 EXCEPT !.nrc = @ + 1, !.pd[ob].ready_to_shade = TRUE]
       ELSE s3

\* the body of "if (ped->need_update)" for cube probe i
BakeCube(s, i) ==
  LET ob == probes_cube_ref[i]
      s1 == [render_scene_to_probe(s) EXCEPT
               !.lg.cube = @ + 1, !.lg.capBounce = s.ub]
      s2 == glossy_filter_probe(s1, i)
      s3 == [s2 EXCEPT !.pd[ob].need_update = FALSE, !.pd[ob].probe_id = i]
      s4 == IF ~s3.pd[ob].ready_to_shade
              THEN [s3 EXCEPT !.nrc = @ + 1, !.pd[ob].ready_to_shade = TRUE]
              ELSE s3
  IN [s4 EXCEPT !.lg.redraw = TRUE]

\* for (i = 1; (ob = probes_cube_ref[i]) && (i < MAX_PROBE); i++)
CubeLoop(s) ==
  LET i == FirstDirtyCube(s.pd)
  IN IF i # 0 THEN BakeCube(s, i) ELSE s

\* mutant: the "return" after a baked cell is missing
ProbesUpdate_NoReturn(s) == CubeLoop(GridLoop(s))

\* the grid loop returns from the step once it has baked a cell
ProbesUpdate(s) ==
  LET g == GridLoop(s)
  IN IF g.lg.redraw THEN g ELSE CubeLoop(g)

\* mutant: the paused step swaps the atlases before it returns
WhenPaused_SwapsFirst(s) == SwapIrradiance(s)

\* mutant: the navigation / playback test is missing
WhenPaused_Continues(s) == ProbesUpdate(s)

\* (rv3d->rflag & RV3D_NAVIGATING) || ED_screen_animation_no_scrub(wm): return
WhenPaused(s) == s

RefreshStep(s, paused) ==
  IF s.uw THEN WorldBake(s)
  ELSE IF paused THEN WhenPaused(s)
  ELSE ProbesUpdate(s)

StepState(paused) ==
  [ub |-> updated_bounce, pd |-> ped, pool |-> irradiance_pool,
   rt |-> irradiance_rt, nrg |-> num_render_grid, nrc |-> num_render_cube,
   uw |-> update_world, wrs |-> world_ready_to_shade, spec |-> specular_toggle,
   tx |-> tex, lg |-> [NoLog EXCEPT !.ran = TRUE, !.paused = paused]]

\* a grid-cell bake changes the irradiance every ready cube probe was
\* captured against; the capture of a cube probe brings that probe up to date
StaleAfter(r) ==
  IF r.lg.grid > 0 THEN {ob \in CubeObs : r.pd[ob].ready_to_shade}
  ELSE IF r.lg.cube > 0 THEN stale \ {probes_cube_ref[r.lg.glossy[1]]}
  ELSE stale

BusyCount(q, redraw) ==
  IF redraw THEN (IF q < QuietCap THEN q + 1 ELSE q) ELSE q

EEVEE_lightprobes_refresh(paused) ==
  /\ pc = "refresh"
  /\ LET r == RefreshStep(StepState(paused), paused)
     IN /\ updated_bounce' = r.ub
        /\ ped' = r.pd
        /\ irradiance_pool' = r.pool
        /\ irradiance_rt' = r.rt
        /\ num_render_grid' = r.nrg
        /\ num_render_cube' = r.nrc
        /\ update_world' = r.uw
        /\ world_ready_to_shade' = r.wrs
        /\ specular_toggle' = r.spec
        /\ tex' = r.tx
        /\ log' = r.lg
        /\ quiet' = BusyCount(quiet, r.lg.redraw)
        /\ stale' = StaleAfter(r)
  /\ pc' = "cache_init"
  /\ UNCHANGED <<sceneVars, scan, registryVars, probe_pool>>
  \* the frame is over: its registry pass is the last one from now on
  /\ last_pass' = ThisPass
  /\ UNCHANGED <<dirtying, call, other>>

(* ------------------------------------------------------------------ *)
(* Specifications                                                      *)
(* ------------------------------------------------------------------ *)
\* what may happen to a scene whose objects are drawn from `universe`
SceneChange(universe, resChoices) ==
  \/ WorldChange
  \/ \E ob \in universe : TransformChange(ob)
  \/ \E ob \in universe, r \in resChoices : AddObject(ob, r)
  \/ \E ob \in universe : RemoveObject(ob)

\* one frame: cache_init, cache_add for every object, cache_finish, refresh
Frame(pauses) ==
  \/ EEVEE_lightprobes_cache_init
  \/ EEVEE_lightprobes_cache_add
  \/ EEVEE_lightprobes_cache_finish
  \/ \E paused \in pauses : EEVEE_lightprobes_refresh(paused)

Next ==
  \/ SceneChange(Universe, ResChoices)
  \/ \E ob \in Universe, r \in ResChoices : ResolutionChange(ob, r)
  \/ Frame(BOOLEAN)

Spec == Init /\ [][Next]_vars

\* a fresh context and a scene that does not change, pause inactive
FreshUniverse == {"G1", "G2", "P1", "P2"}

FreshInit == SceneInit(FreshUniverse, FreshResChoices) /\ EngineInit

FixedNext == Frame({FALSE})

FreshSpec == FreshInit /\ [][FixedNext]_vars

\* two grids and a cube probe, every grid of one cell
WideUniverse == {"G1", "G2", "P1"}

WideInit == SceneInit(WideUniverse, {UnitRes}) /\ EngineInit

WideNext == SceneChange(WideUniverse, {UnitRes}) \/ Frame(BOOLEAN)

WideSpec == WideInit /\ [][WideNext]_vars

\* more cube probes than the registry holds: the last one is rejected
CubeCapInit == SceneInit(CubeObs, {UnitRes}) /\ EngineInit

CubeCapNext == SceneChange(CubeObs, {UnitRes}) \/ Frame(BOOLEAN)

CubeCapSpec == CubeCapInit /\ [][CubeCapNext]_vars

\* more grids than grid_data holds
GridCapInit == SceneInit(GridObs, {UnitRes}) /\ EngineInit

GridCapNext == SceneChange(GridObs, {UnitRes}) \/ Frame(BOOLEAN)

GridCapSpec == GridCapInit /\ [][GridCapNext]_vars

\* two grids whose resolutions change
GridsUniverse == {"G1", "G2"}

GridsInit == SceneInit(GridsUniverse, ResChoices) /\ EngineInit

GridsNext ==
  \/ SceneChange(GridsUniverse, ResChoices)
  \/ \E ob \in GridsUniverse, r \in ResChoices : ResolutionChange(ob, r)
  \/ Frame(BOOLEAN)

GridsSpec == GridsInit /\ [][GridsNext]_vars

\* two scene layers of one scene, each with its own EEVEE_SceneLayerData and
\* its own probe objects, drawn one after the other; e_data and the world are
\* shared
Layers == {"A", "B"}

LayerUniverse == {"G1", "P1"}

\* the layer that is being drawn
CurLayer == CHOOSE l \in Layers : l # other.id

\* what belongs to the layer being drawn: its objects and its sldata
LayerState ==
  [inScene |-> inScene, grid_resolution |-> grid_resolution,
   deg_update_flag |-> deg_update_flag,
   num_cube |-> num_cube, num_grid |-> num_grid,
   cache_num_cube |-> cache_num_cube,
   probes_cube_ref |-> probes_cube_ref, probes_grid_ref |-> probes_grid_ref,
   grid_offset |-> grid_offset, updated_bounce |-> updated_bounce,
   num_render_cube |-> num_render_cube, num_render_grid |-> num_render_grid,
   specular_toggle |-> specular_toggle, probe_pool |-> probe_pool,
   irradiance_pool |-> irradiance_pool, irradiance_rt |-> irradiance_rt,
   ped |-> ped, tex |-> tex, log |-> log, quiet |-> quiet,
   dirtying |-> dirtying, last_pass |-> last_pass, stale |-> stale]

\* a layer that has not been drawn yet, with the objects `in`
FreshLayer(in) ==
  [inScene |-> in, grid_resolution |-> [ob \in Obs |-> UnitRes],
   deg_update_flag |-> in,
   num_cube |-> 0, num_grid |-> 0, cache_num_cube |-> 0,
   probes_cube_ref |-> [i \in 0 .. (MAX_PROBE - 1) |-> NULL],
   probes_grid_ref |-> [i \in 0 .. (MAX_GRID - 1) |-> NULL],
   grid_offset |-> [i \in 0 .. (MAX_GRID - 1) |-> 0], updated_bounce |-> 0,
   num_render_cube |-> 0, num_render_grid |-> 0,
   specular_toggle |-> TRUE, probe_pool |-> FALSE,
   irradiance_pool |-> 0, irradiance_rt |-> 0,
   ped |-> [ob \in Obs |-> FreshPed], tex |-> [id \in 1 .. 2 |-> EmptyTex],
   log |-> NoLog, quiet |-> 0, dirtying |-> NoDirtying,
   last_pass |-> [ref |-> [i \in 0 .. (MAX_GRID - 1) |-> NULL],
                  cells |-> [i \in 0 .. (MAX_GRID - 1) |-> 0],
                  offset |-> [i \in 0 .. (MAX_GRID - 1) |-> 0]],
   stale |-> {}]

\* owes: the layers that have not re-baked the world and marked their probes
\* dirty since the world changed last; seen: the layers that have been drawn
\* since then
LayersInit ==
  /\ SceneInit(LayerUniverse, {UnitRes})
  /\ EngineFields
  /\ call = NoCall
  /\ \E in \in [Obs -> BOOLEAN] :
       /\ \A ob \in Obs : in[ob] => ob \in LayerUniverse
       /\ other = [id |-> "B", owes |-> {}, seen |-> {}, st |-> FreshLayer(in)]

\* the world the two layers share changes before a layer is drawn
WorldChangeOfLayers ==
  /\ pc = "cache_init" /\ ~log.ran
  /\ ~wo_update_flag
  /\ wo_update_flag' = TRUE
  /\ quiet' = 0
  /\ other' = [other EXCEPT !.owes = Layers, !.seen = {}]
  /\ UNCHANGED <<inScene, grid_resolution, deg_update_flag, pc, scan,
                 registryVars, updated_bounce, num_render_cube, num_render_grid,
                 specular_toggle, update_world, world_ready_to_shade, probe_pool,
                 irradiance_pool, irradiance_rt, ped, tex, log, dirtying,
                 last_pass, call, stale>>

\* the layer's step baked the world and left every registered probe dirty
WorldChangeTaken ==
  /\ log.world = 1
  /\ \A i \in LoopRange(probes_grid_ref, MAX_GRID) :
       /\ ped[probes_grid_ref[i]].need_update
       /\ ped[probes_grid_ref[i]].updated_cells = 0
  /\ \A i \in LoopRange(probes_cube_ref, MAX_PROBE) :
       ped[probes_cube_ref[i]].need_update

\* the layer has been drawn (cache_init .. refresh): the other layer is next;
\* update_world, world_ready_to_shade and the world's update_flag stay
NextLayer ==
  /\ pc = "cache_init" /\ log.ran
  /\ other.id \in Layers
  /\ other' = [id |-> CurLayer,
               owes |-> IF WorldChangeTaken THEN other.owes \ {CurLayer}
                        ELSE other.owes,
               seen |-> other.seen \cup {CurLayer},
               st |-> LayerState]
  /\ inScene' = other.st.inScene
  /\ grid_resolution' = other.st.grid_resolution
  /\ deg_update_flag' = other.st.deg_update_flag
  /\ num_cube' = other.st.num_cube
  /\ num_grid' = other.st.num_grid
  /\ cache_num_cube' = other.st.cache_num_cube
  /\ probes_cube_ref' = other.st.probes_cube_ref
  /\ probes_grid_ref' = other.st.probes_grid_ref
  /\ grid_offset' = other.st.grid_offset
  /\ updated_bounce' = other.st.updated_bounce
  /\ num_render_cube' = other.st.num_render_cube
  /\ num_render_grid' = other.st.num_render_grid
  /\ specular_toggle' = other.st.specular_toggle
  /\ probe_pool' = other.st.probe_pool
  /\ irradiance_pool' = other.st.irradiance_pool
  /\ irradiance_rt' = other.st.irradiance_rt
  /\ ped' = other.st.ped
  /\ tex' = other.st.tex
  /\ log' = NoLog
  /\ quiet' = other.st.quiet
  /\ dirtying' = other.st.dirtying
  /\ last_pass' = other.st.last_pass
  /\ stale' = other.st.stale
  /\ UNCHANGED <<wo_update_flag, update_world, world_ready_to_shade, pc, scan,
                 call>>

\* a layer is drawn once, then the other one
LayersNext ==
  \/ WorldChangeOfLayers
  \/ ~log.ran /\ EEVEE_lightprobes_cache_init
  \/ EEVEE_lightprobes_cache_add
  \/ EEVEE_lightprobes_cache_finish
  \/ \E paused \in BOOLEAN : EEVEE_lightprobes_refresh(paused)
  \/ NextLayer

LayersSpec == LayersInit /\ [][LayersNext]_vars

(* ------------------------------------------------------------------ *)
(* The helper functions on their own                                   *)
(* ------------------------------------------------------------------ *)
\* largest resolution per axis of the grids the cell decoding is tried on
MaxRes == 3

\* (float)(int): exact below 2^24, rounded to an even value above
ToFloat(n) == IF n <= 16777216 THEN n ELSE 2 * (n \div 2)

\* mutant: the axes are decoded x-fastest
lightprobe_cell_location_get_XFastest(res, cell_idx) ==
  << ToFloat(cell_idx % res[1]),
     ToFloat((cell_idx \div res[1]) % res[2]),
     ToFloat(cell_idx \div (res[1] * res[2])) >>

\* lightprobe_cell_location_get: local_cell[0..2], from which r_pos is
\* corner + increment_x * local_cell[0] + increment_y * local_cell[1]
\*        + increment_z * local_cell[2]
lightprobe_cell_location_get(res, cell_idx) ==
  << ToFloat(cell_idx \div (res[3] * res[2])),
     ToFloat((cell_idx \div res[3]) % res[2]),
     ToFloat(cell_idx % res[3]) >>

\* the flattened index of cell (x, y, z), as the consumer of the grid computes it
Flatten(res, c) == c[3] + res[3] * (c[2] + res[2] * c[1])

Resolutions == (1 .. MaxRes) \X (1 .. MaxRes) \X (1 .. MaxRes)

CellsOf(res) == (0 .. (res[1] - 1)) \X (0 .. (res[2] - 1)) \X (0 .. (res[3] - 1))

CellCalls ==
  UNION {{[op |-> "flatten", res |-> r, cell |-> c] : c \in CellsOf(r)}
           \cup {[op |-> "decode", res |-> r, idx |-> f] : f \in 0 .. (NumCell(r) - 1)}
         : r \in Resolutions}

\* no frame is drawn: a cell index is decoded on its own
CellInit ==
  /\ SceneInit({}, {UnitRes})
  /\ EngineFields
  /\ call \in CellCalls
  /\ other = NoOther

\* the cell (x, y, z) is flattened, the index is decoded
FlattenThenDecode ==
  /\ call.op = "flatten"
  /\ call' = [op |-> "decoded", res |-> call.res, cell |-> call.cell,
              idx |-> Flatten(call.res, call.cell),
              out |-> lightprobe_cell_location_get(call.res,
                                                   Flatten(call.res, call.cell))]
  /\ UNCHANGED frameVars

\* the index is decoded, the coordinates are flattened again
DecodeThenFlatten ==
  /\ call.op = "decode"
  /\ LET c == lightprobe_cell_location_get(call.res, call.idx)
     IN call' = [op |-> "flattened", res |-> call.res, idx |-> call.idx,
                 out |-> c, back |-> Flatten(call.res, c)]
  /\ UNCHANGED frameVars

CellNext == FlattenThenDecode \/ DecodeThenFlatten

CellSpec == CellInit /\ [][CellNext]_vars

\* #define IRRADIANCE_POOL_SIZE 1024
IRRADIANCE_POOL_SIZE == 1024

\* the build is made with one of three encodings of the irradiance
Builds == {"IRRADIANCE_SH_L2", "IRRADIANCE_CUBEMAP", "IRRADIANCE_HL2"}

\* int size[2]
CellSize(build) ==
  IF build = "IRRADIANCE_SH_L2" THEN <<3, 3>>
  ELSE IF build = "IRRADIANCE_CUBEMAP" THEN <<8, 8>>
  ELSE <<3, 2>>

\* mutant: the row is taken from the remainder as well
diffuse_filter_viewport_NoRows(build, offset) ==
  LET size == CellSize(build)
      cell_per_row == IRRADIANCE_POOL_SIZE \div size[1]
  IN [x |-> size[1] * (offset % cell_per_row),
      y |-> size[2] * (offset % cell_per_row),
      w |-> size[1], h |-> size[2]]

\* DRW_framebuffer_viewport_size(probe_filter_fb, x, y, size[0], size[1])
diffuse_filter_viewport(build, offset) ==
  LET size == CellSize(build)
      cell_per_row == IRRADIANCE_POOL_SIZE \div size[1]
  IN [x |-> size[1] * (offset % cell_per_row),
      y |-> size[2] * (offset \div cell_per_row),
      w |-> size[1], h |-> size[2]]

\* what diffuse_filter_probe leaves in EEVEE_LightProbesInfo and in
\* probe_filter_fb; lodmax is saved on entry and restored on exit, invsamples_ct
\* and lodfactor are kept as the samples_ct they were computed from
diffuse_filter_state(build, st) ==
  IF build = "IRRADIANCE_SH_L2"
    THEN [st EXCEPT !.shres = 32, !.attached = "probe_pool"]
    ELSE [st EXCEPT !.samples_ct = 1024, !.invsamples_ct = <<1, 1024>>,
                    !.lodfactor = <<"lodfactor", 1024>>,
                    !.attached = "probe_pool"]

\* the state a call of diffuse_filter_probe may find: glossy_filter_probe
\* has run (samples_ct 128) or diffuse_filter_probe has (1024)
FilterStates ==
  {[samples_ct |-> n, invsamples_ct |-> <<1, n>>, lodfactor |-> <<"lodfactor", n>>,
    lodmax |-> l, shres |-> r, attached |-> "probe_pool"]
     : n \in {128, 1024}, l \in {2, 7}, r \in {0, 32}}

\* offsets at the start, in the middle and around the end of a row of cells
FilterOffsets == {0, 1, 127, 128, 129, 340, 341, 342, 682}

FilterCalls ==
  {[op |-> "filter", build |-> b, st |-> st, offset |-> o, other |-> o2]
     : b \in Builds, st \in FilterStates, o \in FilterOffsets, o2 \in FilterOffsets}

FilterInit ==
  /\ SceneInit({}, {UnitRes})
  /\ EngineFields
  /\ call \in FilterCalls
  /\ other = NoOther

\* diffuse_filter_probe is called once
FilterOnce ==
  /\ call.op = "filter"
  /\ call' = [call EXCEPT !.op = "filtered",
                          !.st = diffuse_filter_state(call.build, call.st)]
          @@ [rect |-> diffuse_filter_viewport(call.build, call.offset)]
  /\ UNCHANGED frameVars

\* it is called again with the same offset, and with the other offset
FilterAgain ==
  /\ call.op = "filtered"
  /\ call' = [call EXCEPT !.op = "filtered_twice"]
          @@ [st2 |-> diffuse_filter_state(call.build, call.st),
              rect2 |-> diffuse_filter_viewport(call.build, call.offset),
              rect_other |-> diffuse_filter_viewport(call.build, call.other)]
  /\ UNCHANGED frameVars

FilterNext == FilterOnce \/ FilterAgain

FilterSpec == FilterInit /\ [][FilterNext]_vars

\* the resolutions of the grids the atlas is tried with: 1, 64, 4 096,
\* 32 768 and 262 144 cells
AtlasResChoices ==
  {<<1, 1, 1>>, <<4, 4, 4>>, <<16, 16, 16>>, <<32, 32, 32>>, <<64, 64, 64>>}

\* the resolutions of the registered grids, slot 1 first: at most MAX_GRID - 1
AtlasGrids ==
  UNION {[1 .. n -> AtlasResChoices] : n \in 1 .. (MAX_GRID - 1)}

\* egrid->offset of slot i: int offset = 1; ... offset += ped->num_cell
egrid_offset(grids, i) ==
  LET RECURSIVE Sum(_)
      Sum(j) == IF j = 0 THEN 0 ELSE NumCell(grids[j]) + Sum(j - 1)
  IN 1 + Sum(i - 1)

\* the first, the second and the last cell of a grid
CellsTried(res) == {0, 1, NumCell(res) - 1} \cap (0 .. (NumCell(res) - 1))

\* the calls of diffuse_filter_probe the scheduler makes: offset 0 for the
\* world, egrid->offset + cell_id for a cell of a registered grid
AtlasCalls ==
  {[op |-> "world", build |-> b] : b \in Builds}
    \cup UNION {UNION {{[op |-> "cell", build |-> b, grids |-> g, slot |-> i,
                          cell |-> c] : c \in CellsTried(g[i])}
                       : i \in DOMAIN g}
                : b \in Builds, g \in AtlasGrids}

AtlasInit ==
  /\ SceneInit({}, {UnitRes})
  /\ EngineFields
  /\ other = NoOther
  /\ call \in AtlasCalls

\* diffuse_filter_probe(sldata, psl, 0) of the world bake
FilterWorld ==
  /\ call.op = "world"
  /\ call' = [op |-> "written", build |-> call.build, offset |-> 0,
              rect |-> diffuse_filter_viewport(call.build, 0)]
  /\ UNCHANGED frameVars

\* diffuse_filter_probe(sldata, psl, egrid->offset + cell_id) of a grid cell
FilterCell ==
  /\ call.op = "cell"
  /\ LET offset == egrid_offset(call.grids, call.slot) + call.cell
     IN call' = [op |-> "written", build |-> call.build, offset |-> offset,
                 rect |-> diffuse_filter_viewport(call.build, offset)]
  /\ UNCHANGED frameVars

AtlasNext == FilterWorld \/ FilterCell

AtlasSpec == AtlasInit /\ [][AtlasNext]_vars

(* ------------------------------------------------------------------ *)
(* Properties                                                          *)
(* ------------------------------------------------------------------ *)
Units(l) == l.world + l.grid + l.cube

RegisteredGrids == {probes_grid_ref[i] : i \in LoopRange(probes_grid_ref, MAX_GRID)}
RegisteredCubes == {probes_cube_ref[i] : i \in LoopRange(probes_cube_ref, MAX_PROBE)}

\* the dirty state a scheduler step may start with
DirtyState ==
  \/ update_world
  \/ \E ob \in RegisteredGrids \cup RegisteredCubes : ped[ob].need_update

\* a step of the scheduler
RefreshRuns == pc = "refresh" /\ pc' = "cache_init"

\* C1: a scheduler step performs at most one bake unit: the world capture,
\* the grid-cell captures and the cube-probe captures of one step total at
\* most one.
C1_AtMostOneUnit == Units(log) <= 1

\* a grid cell was baked in a step that left a cube probe dirty
C1_Witness ==
  /\ log.grid = 1
  /\ \E ob \in RegisteredCubes : ped[ob].need_update

\* C2: a step that starts with pause inactive and with dirty state (world
\* dirty, or a registered grid or cube probe with need_update) completes
\* exactly one bake unit.
C2_DirtyStepBakesOne ==
  [][(RefreshRuns /\ ~log'.paused /\ DirtyState) => Units(log') = 1]_vars

\* an unpaused step baked a cube probe after the grids had converged
C2_Witness ==
  /\ log.ran /\ ~log.paused
  /\ log.cube = 1
  /\ RegisteredGrids # {}

\* C3: a cube probe is captured only when the bounce counter has reached the
\* bounce limit and no registered grid has need_update set.
C3_CubeAfterGrids ==
  log.cube > 0 =>
    /\ log.capBounce = max_bounce
    /\ updated_bounce = max_bounce
    /\ \A ob \in RegisteredGrids : ~ped[ob].need_update

\* a cube probe was captured in a scene that has a grid
C3_Witness ==
  /\ log.cube = 1
  /\ RegisteredGrids # {}
  /\ log.capBounce = max_bounce

\* C4: whenever a grid cell is captured at bounce k >= 1, the atlas the
\* capture reads (irradiance_pool at that time) holds, for every cell of
\* every registered grid, the result of bounce k-1 of the current bake
\* cycle, and the cell is written into the other atlas.
C4_ReadsLastBounce ==
  (log.grid > 0 /\ log.capBounce >= 1) =>
    /\ log.readOK
    /\ log.readTex # log.writeTex

RECURSIVE SumCells(_)
SumCells(S) ==
  IF S = {} THEN 0
  ELSE LET ob == CHOOSE x \in S : TRUE
       IN ped[ob].num_cell + SumCells(S \ {ob})

\* the cells of all registered grids, of the largest one, the cube probes
TotalCells == SumCells(RegisteredGrids)
MaxCellsPerGrid ==
  IF RegisteredGrids = {} THEN 0
  ELSE Max({ped[ob].num_cell : ob \in RegisteredGrids})
CubeProbeCount == Cardinality(RegisteredCubes)

\* C5 as stated, with c = 2 (the least c that fits a scene of one grid):
\* once the scene stops changing a step without redraw comes within
\* bounceLimit * maxCellsPerGrid + cubeProbeCount + 2 frames, i.e. at most
\* bounceLimit * maxCellsPerGrid + cubeProbeCount + 1 steps request a redraw.
C5_IdleWithinMaxCells ==
  log.ran => quiet <= max_bounce * MaxCellsPerGrid + CubeProbeCount + 1

\* C5 amended: the bound counts the cells of all registered grids: at most
\* bounceLimit * totalCells + cubeProbeCount + 1 steps since the last scene
\* change request a redraw, so a step without redraw comes within
\* bounceLimit * totalCells + cubeProbeCount + 2 unpaused frames.
C5_IdleWithinTotalCells ==
  log.ran => quiet <= max_bounce * TotalCells + CubeProbeCount + 1

\* two grids and a cube probe, and the bound is attained
C5_Witness ==
  /\ log.ran
  /\ Cardinality(RegisteredGrids) = 2
  /\ CubeProbeCount = 1
  /\ quiet = max_bounce * TotalCells + CubeProbeCount + 1

\* C6: from a fresh context with a fixed scene and pause inactive, the first
\* frame bakes the world, then exactly bounceLimit * totalCells +
\* cubeProbeCount frames bake one unit each, and no later frame requests a
\* redraw; one grid of (2,2,2) and no cube probe: 1 world frame, 24 bake frames.
C6_FreshBakeLength ==
  log.ran =>
    /\ (log.redraw /\ quiet = 1) => (log.world = 1 /\ log.grid + log.cube = 0)
    /\ (log.redraw /\ quiet > 1) => (log.world = 0 /\ log.grid + log.cube = 1)
    /\ log.redraw => quiet <= 1 + max_bounce * TotalCells + CubeProbeCount
    /\ ~log.redraw => quiet = 1 + max_bounce * TotalCells + CubeProbeCount

\* the grid of (2,2,2) alone: idle after 1 + 24 frames
C6_Witness ==
  /\ log.ran /\ ~log.redraw
  /\ RegisteredGrids = {"G1"} /\ RegisteredCubes = {}
  /\ grid_resolution["G1"] = <<2, 2, 2>>
  /\ quiet = 25

\* C7 as stated: when cache_finish recreates the reflection atlas because
\* num_cube differs from cache_num_cube, then before the next scheduler step
\* every registered cube probe and every registered grid has need_update set,
\* every grid's updated_cells is 0, the bounce counter is 0, and every cube
\* probe's ready_to_shade and the world ready flag are cleared.
C7_ReallocResetsAll ==
  [][(pc = "cache_add" /\ pc' = "refresh" /\ num_cube # cache_num_cube) =>
       /\ \A ob \in RegisteredCubes :
            ped'[ob].need_update /\ ~ped'[ob].ready_to_shade
       /\ \A ob \in RegisteredGrids :
            ped'[ob].need_update /\ ped'[ob].updated_cells = 0
       /\ updated_bounce' = 0
       /\ ~world_ready_to_shade']_vars

\* C8: a scheduler step that starts with update_world set does only world
\* work, paused or not: one world capture, glossy filter into layer 0, diffuse
\* filter into cell 0 of irradiance_rt, one swap, diffuse filter into cell 0 of
\* the other atlas, update_world cleared, redraw requested; the bounce counter
\* and every object's need_update, updated_cells and ready_to_shade are kept.
C8_WorldStepOnly ==
  [][(RefreshRuns /\ update_world) =>
       /\ log'.world = 1 /\ log'.grid = 0 /\ log'.cube = 0
       /\ log'.glossy = <<0>>
       /\ log'.irr = << <<irradiance_rt, 0>>, <<irradiance_pool, 0>> >>
       /\ log'.swaps = 1
       /\ irradiance_pool' = irradiance_rt /\ irradiance_rt' = irradiance_pool
       /\ ~update_world'
       /\ log'.redraw
       /\ updated_bounce' = updated_bounce
       /\ \A ob \in Obs :
            /\ ped'[ob].need_update = ped[ob].need_update
            /\ ped'[ob].updated_cells = ped[ob].updated_cells
            /\ ped'[ob].ready_to_shade = ped[ob].ready_to_shade]_vars

\* a world step taken while paused, with a grid still dirty
C8_Witness ==
  /\ log.world = 1 /\ log.paused
  /\ \E ob \in RegisteredGrids : ped[ob].need_update

\* no dirty state is left and the bounces are done
Converged ==
  /\ ~update_world
  /\ \A ob \in RegisteredGrids \cup RegisteredCubes : ~ped[ob].need_update
  /\ updated_bounce = max_bounce

\* C9 as stated: a step that requests no redraw leaves the system converged
\* (update_world clear, no registered object with need_update, bounce counter
\* at the limit), and a step requests a redraw exactly when it did a bake unit.
C9_NoRedrawMeansIdle ==
  log.ran =>
    /\ ~log.redraw => Converged
    /\ log.redraw <=> Units(log) >= 1

\* C9 amended: a step taken with pause inactive that requests no redraw
\* leaves the system converged; every step, paused or not, requests a redraw
\* exactly when it did a bake unit.
C9_UnpausedNoRedrawMeansIdle ==
  log.ran =>
    /\ (~log.paused /\ ~log.redraw) => Converged
    /\ log.redraw <=> Units(log) >= 1

\* an unpaused step without redraw, with a grid and a cube probe registered
C9_Witness ==
  /\ log.ran /\ ~log.paused /\ ~log.redraw
  /\ RegisteredGrids # {} /\ RegisteredCubes # {}

\* C10 as stated: a step taken while the pause signal is active completes no
\* bake unit: no world, grid-cell or cube capture.
C10_PausedBakesNothing == log.paused => Units(log) = 0

\* C10 amended: a step taken while the pause signal is active captures no
\* grid cell and no cube probe; it captures the world probe exactly when
\* update_world was set at the start of the step.
C10_PausedBakesNoProbe ==
  [][(RefreshRuns /\ log'.paused) =>
       /\ log'.grid = 0 /\ log'.cube = 0
       /\ log'.world = (IF update_world THEN 1 ELSE 0)]_vars

\* a paused step that did nothing although a probe is dirty
C10_Witness ==
  /\ log.ran /\ log.paused /\ Units(log) = 0
  /\ \E ob \in RegisteredGrids \cup RegisteredCubes : ped[ob].need_update

\* C11: a scheduler step taken with update_world clear and pause active
\* changes nothing: the bounce counter, every object's engine data, the
\* active counts, the roles of the two irradiance atlases and the texture
\* contents are kept, no redraw is requested, and nothing of a bake unit (swap,
\* draw, filter) is started.
C11_PausedStepIsNoOp ==
  [][(RefreshRuns /\ ~update_world /\ log'.paused) =>
       /\ updated_bounce' = updated_bounce
       /\ ped' = ped
       /\ num_render_grid' = num_render_grid
       /\ num_render_cube' = num_render_cube
       /\ irradiance_pool' = irradiance_pool /\ irradiance_rt' = irradiance_rt
       /\ tex' = tex
       /\ specular_toggle' = specular_toggle
       /\ ~log'.redraw
       /\ log'.swaps = 0 /\ log'.irr = <<>> /\ log'.glossy = <<>>
       /\ log'.specAtDraw = {}
       /\ Units(log') = 0]_vars

\* a paused step in the middle of the bounces: a grid has cells left to bake
C11_Witness ==
  /\ log.ran /\ log.paused /\ ~log.redraw
  /\ updated_bounce > 0 /\ updated_bounce < max_bounce
  /\ \E ob \in RegisteredGrids :
       ped[ob].need_update /\ ped[ob].updated_cells > 0

Handed == SceneOrder[Min(Pending)]

\* a dirty object with no progress stays so until the pass is over
PassKeepsDirty ==
  \A ob \in Obs :
    (ped[ob].need_update /\ ped[ob].updated_cells = 0) =>
      (ped'[ob].need_update /\ ped'[ob].updated_cells = 0)

DirtyingStep ==
  /\ pc = "cache_add" /\ Pending # {}
  /\ ~TooManyProbes(Handed)
  /\ deg_update_flag[Handed] \/ update_world

\* C14 as stated: when the registry marks an object dirty, the bounce counter
\* is reset to zero only if this is the first dirtying since an atlas was
\* (re)created; any other dirtying leaves the bounce counter unchanged.
C14_ResetOnlyAfterResize ==
  [][DirtyingStep =>
       IF dirtying.since THEN updated_bounce' = updated_bounce
                         ELSE updated_bounce' = 0]_vars

\* C14 amended: whenever the registry marks an object dirty, the bounce
\* counter is reset to zero, whether or not an atlas was (re)created before.
C14_EveryDirtyingResets ==
  [][DirtyingStep => updated_bounce' = 0]_vars

\* an object was marked dirty, not for the first time since the atlases were
\* created, when the bounce counter had advanced, and the counter is 0 now
C14_Witness ==
  /\ pc = "cache_add"
  /\ dirtying.since /\ ~dirtying.first /\ dirtying.from > 0
  /\ updated_bounce = 0

\* the count of the object's kind has reached that kind's own maximum
KindFull(ob) ==
  \/ (ob \in CubeObs /\ num_cube >= MAX_PROBE)
  \/ (ob \in GridObs /\ num_grid >= MAX_GRID)

\* C15 as stated: cache_add called with an object whose kind's count has
\* reached that kind's own maximum (MAX_PROBE for cube probes, MAX_GRID for
\* grids) appends nothing and leaves both counts, both reference lists and the
\* object's bake state unchanged; so num_cube <= MAX_PROBE and
\* num_grid <= MAX_GRID after every call and no reference is stored outside
\* its array.
C15_RejectsAtOwnCapacity ==
  [][(pc = "cache_add" /\ Pending # {}) =>
       /\ KindFull(Handed) =>
            /\ UNCHANGED <<num_cube, num_grid, probes_cube_ref, probes_grid_ref>>
            /\ ped'[Handed] = ped[Handed]
       /\ num_cube' <= MAX_PROBE /\ num_grid' <= MAX_GRID
       /\ pc' # "undefined"]_vars

\* the slots of the registered grids
GridSlots == LoopRange(probes_grid_ref, MAX_GRID)

\* the atlas cells of the grid in slot i
CellRange(i) ==
  grid_offset[i] .. (grid_offset[i] + ped[probes_grid_ref[i]].num_cell - 1)

RECURSIVE CellsBefore(_)
CellsBefore(i) ==
  IF i <= 1 THEN 0
  ELSE ped[probes_grid_ref[i - 1]].num_cell + CellsBefore(i - 1)

\* after a registry pass: every offset is 1 plus the cells of the grids
\* registered before, so the ranges are disjoint and none holds cell 0
OffsetsCumulative ==
  /\ \A i \in GridSlots : grid_offset[i] = 1 + CellsBefore(i)
  /\ \A i \in GridSlots : 0 \notin CellRange(i)
  /\ \A i, j \in GridSlots : i # j => CellRange(i) \cap CellRange(j) = {}

\* the cells of the registered grids as the pass left them
CellsNow ==
  [i \in DOMAIN probes_grid_ref |->
     IF probes_grid_ref[i] = NULL THEN 0 ELSE ped[probes_grid_ref[i]].num_cell]

C17_CellIndexRoundTrip ==
  /\ call.op = "decoded" => call.out = call.cell
  /\ call.op = "flattened" =>
       /\ call.out \in CellsOf(call.res)
       /\ call.back = call.idx

\* a cell of a grid with three different extents
C17_Witness ==
  /\ call.op = "decoded"
  /\ call.res = <<1, 2, 3>> /\ call.cell = <<0, 1, 2>>
  /\ call.idx = 5

\* the place of an object in the scene iteration
ScanPos(ob) == CHOOSE k \in 1 .. Len(SceneOrder) : SceneOrder[k] = ob

\* slot 0 is empty and the scene objects fill slots 1 .. count - 1 in scan order
SlotsInOrder(ref, count) ==
  /\ count >= 1
  /\ ref[0] = NULL
  /\ \A i \in DOMAIN ref : (ref[i] # NULL) <=> (1 <= i /\ i < count)
  /\ \A i, j \in 1 .. (count - 1) : i < j => ScanPos(ref[i]) < ScanPos(ref[j])

\* C18: after every registry reset and scan num_cube >= 1 and num_grid >= 1,
\* slot 0 of both reference lists holds no scene object and the scene objects
\* fill slots 1 .. count - 1 in scan order; layer 0 of the reflection atlas
\* and cell 0 of the irradiance atlases are written by the world bake only.
C18_SlotZeroIsTheWorld ==
  /\ (pc \in {"cache_add", "refresh"} \/ log.ran) =>
       /\ SlotsInOrder(probes_cube_ref, num_cube)
       /\ SlotsInOrder(probes_grid_ref, num_grid)
  /\ log.world = 0 =>
       /\ \A k \in DOMAIN log.glossy : log.glossy[k] # 0
       /\ \A k \in DOMAIN log.irr : log.irr[k][2] # 0
  /\ \A id \in DOMAIN tex : tex[id][0] \in {NoneTag, WorldTag}

\* two grids and a cube probe are registered and the cube probe has just been
\* filtered into layer 1
C18_Witness ==
  /\ log.cube = 1 /\ log.glossy = <<1>>
  /\ num_grid = 3 /\ num_cube = 2
  /\ probes_grid_ref[1] = "G1" /\ probes_grid_ref[2] = "G2"
  /\ probes_cube_ref[1] = "P1"

\* C19: specular_toggle is false during every draw of the scene made by
\* render_scene_to_probe and true again once it has returned, so it is true
\* before and after every scheduler step, for grid cells and cube probes alike.
C19_SpecularOffOnlyInCapture ==
  /\ specular_toggle
  /\ log.specAtDraw \subseteq {FALSE}
  /\ (log.grid + log.cube > 0) => log.specAtDraw = {FALSE}

\* a grid cell was captured at a bounce that reads the bounce before
C19_Witness ==
  /\ log.grid = 1 /\ log.capBounce = 1
  /\ log.specAtDraw = {FALSE}
  /\ specular_toggle

\* two viewports have no pixel in common
RectsDisjoint(a, b) ==
  \/ a.x + a.w <= b.x \/ b.x + b.w <= a.x
  \/ a.y + a.h <= b.y \/ b.y + b.h <= a.y

\* C20: the footprint diffuse_filter_probe writes depends on the offset
\* alone: the w x h rectangle at x = w * (o mod (1024 div w)),
\* y = h * (o div (1024 div w)); a second call with the same offset writes
\* the same rectangle and leaves the state the first call left; two distinct
\* offsets give rectangles with no pixel in common.
C20_FootprintByOffset ==
  /\ call.op \in {"filtered", "filtered_twice"} =>
       LET size == CellSize(call.build)
       IN /\ call.rect.w = size[1] /\ call.rect.h = size[2]
          /\ call.rect.x = size[1] * (call.offset % (1024 \div size[1]))
          /\ call.rect.y = size[2] * (call.offset \div (1024 \div size[1]))
          /\ call.rect.x + call.rect.w <= IRRADIANCE_POOL_SIZE
  /\ call.op = "filtered_twice" =>
       /\ call.rect2 = call.rect
       /\ call.st2 = call.st
       /\ call.other # call.offset => RectsDisjoint(call.rect, call.rect_other)
       /\ call.other = call.offset => call.rect_other = call.rect

\* the last cell of the first row and the first cell of the second row
C20_Witness ==
  /\ call.op = "filtered_twice"
  /\ call.build = "IRRADIANCE_HL2"
  /\ call.offset = 340 /\ call.other = 341
  /\ call.rect.y = 0 /\ call.rect_other.y = 2 /\ call.rect_other.x = 0

\* the slots of the registered grids that have cells left at this bounce
DirtySlots == {i \in GridSlots : ped[probes_grid_ref[i]].need_update}

\* the engine data of the grids other than the one in slot i is kept
OtherGridsKept(i) ==
  \A j \in GridSlots \ {i} : ped'[probes_grid_ref[j]] = ped[probes_grid_ref[j]]

\* the step baked cell `cell` of the grid in slot i at bounce b and nothing else
BakedCell(i, cell, b) ==
  /\ Units(log') = 1 /\ log'.grid = 1
  /\ log'.capBounce = b
  /\ Len(log'.irr) = 1 /\ log'.irr[1][2] = grid_offset[i] + cell
  /\ updated_bounce' = b
  /\ ped'[probes_grid_ref[i]].updated_cells = cell + 1
  /\ ped'[probes_grid_ref[i]].need_update
       = (cell + 1 < ped[probes_grid_ref[i]].num_cell)

\* between two steps of a fixed scene: the grids before the first dirty one
\* have finished the bounce, the grids after it have not started it
BounceFrontier ==
  \A i \in GridSlots :
    LET p == ped[probes_grid_ref[i]]
    IN /\ p.need_update => p.updated_cells < p.num_cell
       /\ ~p.need_update => p.updated_cells = p.num_cell
       /\ \A j \in GridSlots :
            (i < j /\ p.need_update) =>
               /\ ped[probes_grid_ref[j]].need_update
               /\ ped[probes_grid_ref[j]].updated_cells = 0

\* C21: in a bake cycle of a fixed scene every step with bounces left bakes
\* one grid cell: the cell updated_cells of the first grid in registry order
\* that is dirty, at the current bounce; when no grid is dirty the bounce
\* advances, and below the limit every registered grid is re-marked dirty from
\* cell 0 and the atlases are swapped once before the first cell of the next
\* bounce is baked (no swap and no bake when the limit is reached); so the
\* cells are baked bounce 0, 1, 2, grids in registry order, cells in
\* increasing index, and no cell of bounce k+1 precedes a cell of bounce k.
C21_BakeOrder ==
  /\ []((pc = "refresh" \/ log.ran) => BounceFrontier)
  /\ [][(RefreshRuns /\ ~update_world /\ updated_bounce < max_bounce) =>
          IF DirtySlots # {}
            THEN LET i == Min(DirtySlots)
                 IN /\ BakedCell(i, ped[probes_grid_ref[i]].updated_cells,
                                 updated_bounce)
                    /\ OtherGridsKept(i)
                    /\ log'.swaps = 2
                    /\ irradiance_pool' = irradiance_pool
            ELSE IF GridSlots = {}
              THEN /\ Units(log') = log'.cube
                   /\ updated_bounce' = max_bounce
                   /\ log'.swaps = (max_bounce - 1) - updated_bounce
            ELSE IF updated_bounce + 1 < max_bounce
              THEN /\ BakedCell(1, 0, updated_bounce + 1)
                   /\ \A j \in GridSlots \ {1} :
                        /\ ped'[probes_grid_ref[j]].need_update
                        /\ ped'[probes_grid_ref[j]].updated_cells = 0
                   /\ log'.swaps = 3
                   /\ irradiance_pool' = irradiance_rt
                   /\ irradiance_rt' = irradiance_pool
              ELSE /\ log'.grid = 0
                   /\ updated_bounce' = max_bounce
                   /\ log'.swaps = 0
                   /\ OtherGridsKept(0)]_vars

\* the step that advanced to bounce 1 with two grids: the atlases are swapped
\* once for the advance, the first grid has its first cell of two baked, the
\* second grid starts over
C21_Witness ==
  /\ log.grid = 1 /\ log.capBounce = 1 /\ log.swaps = 3
  /\ GridSlots = {1, 2}
  /\ ped[probes_grid_ref[1]].updated_cells = 1
  /\ ped[probes_grid_ref[1]].need_update
  /\ ped[probes_grid_ref[2]].need_update
  /\ ped[probes_grid_ref[2]].updated_cells = 0

\* what a grid-cell capture sees and what the step leaves in the counts
CaptureCounts ==
  /\ log'.duringCube = 0
  /\ log'.duringGrid = (IF log'.capBounce = 0 THEN 0 ELSE num_grid)
  /\ num_render_cube' = num_render_cube
  /\ num_render_grid' = num_grid

\* C22 as stated: during a grid-cell capture num_render_cube is 0 and
\* num_render_grid is 0 at bounce 0 and num_grid at a later bounce; when the
\* step returns num_render_cube is what it was before the step,
\* num_render_grid is num_grid and the two irradiance atlases have the roles
\* they had before the step.
C22_RolesAsBeforeStep ==
  [][(RefreshRuns /\ log'.grid > 0) =>
       /\ CaptureCounts
       /\ irradiance_pool' = irradiance_pool
       /\ irradiance_rt' = irradiance_rt]_vars

\* C22 amended: the counts as stated; the capture swaps the atlases and swaps
\* them back, so the step leaves the roles that held when the capture began:
\* those before the step when the cell was baked at the bounce the step
\* started with, the exchanged ones when the step first advanced the bounce
\* (one more swap); the texture the cell was written to is irradiance_pool
\* when the step returns.
C22_RolesAsBeforeCapture ==
  [][(RefreshRuns /\ log'.grid > 0) =>
       /\ CaptureCounts
       /\ log'.readTex # log'.writeTex
       /\ irradiance_pool' = log'.writeTex /\ irradiance_rt' = log'.readTex
       /\ IF updated_bounce' = updated_bounce
            THEN /\ log'.swaps = 2
                 /\ irradiance_pool' = irradiance_pool
                 /\ irradiance_rt' = irradiance_rt
            ELSE /\ log'.swaps = 3
                 /\ irradiance_pool' = irradiance_rt
                 /\ irradiance_rt' = irradiance_pool]_vars

\* a cell was captured at bounce 1 with no active cube probe while the world
\* and a cube probe are ready to shade: the count is 2 again after the step
C22_Witness ==
  /\ log.grid = 1 /\ log.capBounce = 1
  /\ log.duringCube = 0 /\ log.duringGrid = num_grid
  /\ num_render_cube = 2 /\ num_render_grid = num_grid
  /\ num_grid = 2

\* the scheduler is idle: a step taken with pause inactive requested no redraw
Idle == log.ran /\ ~log.paused /\ ~log.redraw

\* C23 as stated: whenever the scheduler is idle, every ready cube probe's
\* most recent capture took place after the most recent bake of any grid
\* cell, whatever scene changes came before, a transform change of a grid
\* only included.
C23_CubesAfterLastGridBake ==
  Idle => \A ob \in RegisteredCubes : ped[ob].ready_to_shade => ob \notin stale

\* C24 as stated: whenever the scheduler is idle (a step with pause inactive
\* that requests no redraw) and the world probe is ready, num_render_grid
\* equals num_grid, whatever scene changes came before, the removal of a cube
\* probe after the grids have converged included.
C24_IdleShadesEveryGrid ==
  (Idle /\ world_ready_to_shade) => num_render_grid = num_grid

\* the registered cube probes that are shaded with
ReadyCubes == {ob \in RegisteredCubes : ped[ob].ready_to_shade}

\* C25 as stated: after every frame num_render_cube <= num_cube, and when the
\* world probe is ready num_render_cube is 1 plus the number of registered
\* cube probes with ready_to_shade set, for any sequence of probe additions,
\* removals and replacements, one probe removed and another added between two
\* frames included.
C25_RenderCubeCount ==
  log.ran =>
    /\ num_render_cube <= num_cube
    /\ world_ready_to_shade => num_render_cube = 1 + Cardinality(ReadyCubes)

\* C26 as stated: with two scene layers that share one world and are drawn
\* one after the other, a world change makes each layer re-bake its own world
\* probe and mark its own grids and cube probes dirty in the first frame it is
\* drawn after the change, whichever layer is drawn first: no layer that has
\* been drawn since the change still owes the update.
C26_EveryLayerTakesWorldChange ==
  other.id \in Layers => other.owes \cap other.seen = {}

\* the viewport lies within the IRRADIANCE_POOL_SIZE x IRRADIANCE_POOL_SIZE atlas
InsideAtlas(r) ==
  /\ 0 <= r.x /\ r.x + r.w <= IRRADIANCE_POOL_SIZE
  /\ 0 <= r.y /\ r.y + r.h <= IRRADIANCE_POOL_SIZE

\* C27 as stated: every footprint diffuse_filter_probe writes for an offset
\* the scheduler passes to it (0 for the world, grid offset + cell index for
\* any registered grids within the capacity and any resolutions) lies inside
\* the irradiance atlas.
C27_FootprintInsideAtlas ==
  call.op = "written" => InsideAtlas(call.rect)

====
